---- MODULE Spec2Model ----
(***************************************************************************)
(* A model of the ShelfScanner backend's recognition orchestrator          *)
(* (api/v1/endpoints/scan.py: scan_shelf), its two providers               *)
(* (services/ai/openai_service.py, services/ai/google_vision_service.py)   *)
(* and the recommendation endpoint (api/v1/endpoints/recommend.py).        *)
(*                                                                         *)
(* Conventions                                                             *)
(*  - a Python str that the code inspects (strip, lower, "in") is a        *)
(*    sequence of one-character strings; a str the code only copies is a   *)
(*    TLA+ string;                                                         *)
(*  - Optional[str] is a record [some, s]: None is [some |-> FALSE];       *)
(*  - a float is an integer number of ten-thousandths (0.5 is 5000); a     *)
(*    double that rounding left just below a decimal is the integer just   *)
(*    below it (0.7999999999999999 is 7999);                               *)
(*  - an f-string is the sequence of its parts (<<"OpenAI failed: ", e>>); *)
(*    a message that is None is the empty sequence.                        *)
(***************************************************************************)
EXTENDS Integers, Sequences, FiniteSets, TLC

VARIABLES
    \* ---- settings (core/config.py) ----
    OPENAI_API_KEY,          \* TRUE iff settings.OPENAI_API_KEY is set
    GOOGLE_CLOUD_PROJECT,    \* TRUE iff settings.GOOGLE_CLOUD_PROJECT is set
    GOOGLE_VISION_AVAILABLE, \* TRUE iff google.cloud.vision could be imported
    \* ---- one scan_shelf request ----
    session,                 \* "valid" | "missing" | "expired"
    image_ok,                \* validate_image(image)
    use_fallback,            \* Form parameter
    max_books,               \* Form parameter
    pc,                      \* position in scan_shelf
    openai_service,          \* TRUE once OpenAIVisionService() was constructed
    google_service,          \* TRUE once GoogleVisionService() was constructed
    recognized_books,
    api_used,
    error_message,
    success,
    primary_calls,           \* number of calls of openai_service.identify_books
    secondary_calls,         \* number of calls of google_service.identify_books
    vision_content,          \* what the chat completion call of identify_books did
    primary_result,          \* what openai_service.identify_books did
    texts,                   \* what google_service._detect_text returned
    secondary_result,        \* what google_service.identify_books did
    response,                \* the ShelfScanResponse returned, if any
    http_error,              \* the HTTPException raised, if any
    \* ---- one generate_recommendations request ----
    rec_session,             \* "valid" | "missing" | "expired"
    has_preferences,         \* a UserPreference row exists for the session
    favorite_genres,         \* user_preferences.favorite_genres
    max_recommendations,     \* rec_request.max_recommendations
    rec_pc,                  \* position in generate_recommendations
    generator_result,        \* what get_book_recommendations did
    fallback_used,           \* _get_fallback_recommendations was called
    ai_recommendations,
    idx,                     \* index of ai_rec in ai_recommendations
    book_row,                \* the Book of the current iteration (book)
    recommendation,          \* the BookRecommendation of the current iteration
    recommendations,         \* the responses built so far
    rec_returned,            \* the list returned, if any
    rec_error,               \* the HTTPException raised, if any
    \* ---- one get_recommendations request ----
    fetched,                 \* what get_recommendations did
    \* ---- storage (core/database.py) ----
    db_books,                \* committed rows of table books
    db_recommendations,      \* committed rows of table book_recommendations
    tx_books,                \* rows flushed in the request's open transaction
    tx_recommendations,      \* rows added to the request's session, not committed
    next_id,                 \* the next uuid4
    \* ---- a second generate_recommendations request, run concurrently ----
    other_pc,                \* position of the second request
    other_ai_rec,            \* the element its loop is at (ai_rec)
    other_tx_books           \* rows flushed in the second request's transaction

settingsVars == <<OPENAI_API_KEY, GOOGLE_CLOUD_PROJECT, GOOGLE_VISION_AVAILABLE>>
requestVars == <<session, image_ok, use_fallback, max_books>>
scanVars == <<pc, openai_service, google_service, recognized_books, api_used,
              error_message, success, primary_calls, secondary_calls,
              vision_content, primary_result, texts, secondary_result, response,
              http_error>>
recRequestVars == <<rec_session, has_preferences, favorite_genres, max_recommendations>>
recVars == <<rec_pc, generator_result, fallback_used, ai_recommendations, idx, book_row,
             recommendation, recommendations, rec_returned, rec_error>>
dbVars == <<db_books, db_recommendations, tx_books, tx_recommendations, next_id>>
otherVars == <<other_pc, other_ai_rec, other_tx_books>>
vars == <<settingsVars, requestVars, scanVars, recRequestVars, recVars, dbVars, fetched,
          otherVars>>

-----------------------------------------------------------------------------
(* Bounds of the model *)

\* longest JSON array the vision model returns
MaxRaw == 2
\* largest max_books a request asks for (the Form parameter has no limit)
MaxBooksBound == 2
\* most lines of a text the OCR provider reads
MaxOcr == 2
\* longest JSON array the recommendation model returns
MaxRecItems == 2
\* largest max_recommendations a request asks for (the schema allows 1..20)
MaxRecsBound == 3

-----------------------------------------------------------------------------
(* Python values *)

None == [some |-> FALSE, s |-> <<>>]
Some(s) == [some |-> TRUE, s |-> s]

\* str.strip(): drop leading and trailing white space
RECURSIVE LStrip(_)
LStrip(s) == IF s # <<>> /\ Head(s) = " " THEN LStrip(Tail(s)) ELSE s

RECURSIVE RStrip(_)
RStrip(s) ==
    IF s # <<>> /\ s[Len(s)] = " " THEN RStrip(SubSeq(s, 1, Len(s) - 1)) ELSE s

Strip(s) == RStrip(LStrip(s))

\* seq[:n] for n >= 0
Take(seq, n) == SubSeq(seq, 1, IF n < Len(seq) THEN n ELSE Len(seq))

UpperCase == <<"A", "B", "C", "D", "E", "F", "G", "H", "I", "J", "K", "L", "M",
               "N", "O", "P", "Q", "R", "S", "T", "U", "V", "W", "X", "Y", "Z">>
LowerCase == <<"a", "b", "c", "d", "e", "f", "g", "h", "i", "j", "k", "l", "m",
               "n", "o", "p", "q", "r", "s", "t", "u", "v", "w", "x", "y", "z">>

\* str.lower()
LowerChar(c) ==
    IF \E i \in 1..Len(UpperCase) : UpperCase[i] = c
    THEN LowerCase[CHOOSE i \in 1..Len(UpperCase) : UpperCase[i] = c]
    ELSE c

Lower(s) == [i \in 1..Len(s) |-> LowerChar(s[i])]

\* a in b, for two str
IsSubstring(a, b) ==
    \E i \in 0..(Len(b) - Len(a)) : SubSeq(b, i + 1, i + Len(a)) = a

\* a message has text iff one of its parts is a non-empty string
NonEmptyText(msg) == \E i \in 1..Len(msg) : msg[i] # ""

-----------------------------------------------------------------------------
(* Strings the providers see *)

Text ==
    [ dune |->
          <<"D", "u", "n", "e">>,
      emma |->
          <<"E", "m", "m", "a">>,
      xyz |->
          <<"x", "y", "z">>,
      herbert |->
          <<"H", "e", "r", "b", "e", "r", "t">>,
      topShelf |->
          <<"t", "o", "p">>,
      noneText |->
          <<"N", "o", "n", "e">>,
      nineteen84 |->
          <<"1", "9", "8", "4">>,
      frank |->
          <<"F", "r", "a", "n", "k">>,
      byGeorgeOrwell |->
          <<"b", "y", " ", "G", "e", "o", "r", "g", "e", " ", "O", "r", "w", "e", "l", "l">>,
      georgeOrwell |->
          <<"G", "e", "o", "r", "g", "e", " ", "O", "r", "w", "e", "l", "l">>,
      isbnLine |->
          <<"I", "S", "B", "N", " ", "9", "7", "8", "-", "0", "-", "4", "5", "2", "-", "2",
          "8", "4", "2", "3", "-", "4">>,
      copyrightLine |->
          <<"C", "o", "p", "y", "r", "i", "g", "h", "t", " ", "1", "9", "4", "9">>,
      austen |->
          <<"A", "u", "s", "t", "e", "n">>,
      theArtOfWar |->
          <<"T", "h", "e", " ", "A", "r", "t", " ", "o", "f", " ", "W", "a", "r">>,
      fahrenheit451 |->
          <<"F", "a", "h", "r", "e", "n", "h", "e", "i", "t", " ", "4", "5", "1">>,
      expedition |->
          <<"E", "x", "p", "e", "d", "i", "t", "i", "o", "n">> ]

-----------------------------------------------------------------------------
(* OpenAIVisionService.identify_books (openai_service.py:37-141) *)

\* a JSON value read with book.get(key): absent, null, or a string
Missing == [k |-> "missing", s |-> <<>>]
Null == [k |-> "null", s |-> <<>>]
Str(s) == [k |-> "str", s |-> s]

\* the "confidence" of an entry: absent, null, a number, or a non-numeric string
ConfMissing == [k |-> "missing", n |-> 0]
ConfNull == [k |-> "null", n |-> 0]
ConfText == [k |-> "text", n |-> 0]
\* the number n/100
Conf(n) == [k |-> "num", n |-> n * 100]

Entry(t, a, c, p) ==
    [dict |-> TRUE, title |-> t, author |-> a, confidence |-> c, position |-> p]

\* the elements the vision model can put in its JSON array
RawEntries ==
    { Entry(Str(<<" ">> \o Text.dune), Str(Text.herbert), Conf(90), Missing),
      Entry(Str(Text.emma), Null, ConfMissing, Str(Text.topShelf)),
      Entry(Str(Text.emma), Str(<<>>), Conf(70), Null),
      Entry(Str(<<" ", " ">>), Missing, Conf(80), Missing),
      Entry(Missing, Missing, ConfNull, Missing),
      Entry(Null, Missing, Conf(40), Str(<<>>)),
      Entry(Str(Text.dune), Missing, ConfNull, Missing),
      Entry(Str(Text.dune), Missing, ConfText, Missing),
      Entry(Str(Text.xyz), Str(<<" ">>), Conf(150), Missing),
      [dict |-> FALSE, title |-> Missing, author |-> Missing,
       confidence |-> ConfMissing, position |-> Missing] }

RECURSIVE SeqsUpTo(_, _)
SeqsUpTo(S, n) ==
    IF n = 0 THEN {<<>>}
    ELSE LET shorter == SeqsUpTo(S, n - 1)
         IN shorter \cup {Append(q, e) : q \in shorter, e \in S}

ProviderErrors == {"request timed out", "rate limit exceeded"}

\* what the chat completion call does: it raises, or it returns a content that
\* is not JSON ("text"), is JSON but no array ("object"), or is a JSON array
VisionContents ==
    [kind : {"raise"}, err : ProviderErrors, items : {<<>>}]
    \cup [kind : {"text", "object"}, err : {""}, items : {<<>>}]
    \cup [kind : {"array"}, err : {""}, items : SeqsUpTo(RawEntries, MaxRaw)]

NoContent == [kind |-> "none", err |-> "", items |-> <<>>]

\* book.get(key) is truthy
Truthy(v) == v.k = "str" /\ v.s # <<>>

\* str(book["title"]): the key is present (openai_service.py:119,121)
StrOf(v) == IF v.k = "null" THEN Text.noneText ELSE v.s

\* str(book.get(key, "")).strip() if book.get(key) else None
StripOrNone(v) == IF Truthy(v) THEN Some(Strip(v.s)) ELSE None

\* the entries the loop of openai_service.py:118-119 builds a book from
Considered(book) == book.dict /\ book.title.k # "missing"

\* float(book.get("confidence", 0.5)) raises for null and for a non-numeric string
FloatRaises(c) == c.k \in {"null", "text"}
Float(c) == IF c.k = "missing" THEN 5000 ELSE c.n

ValidatedBook(book) ==
    [title |-> Strip(StrOf(book.title)),
     author |-> StripOrNone(book.author),
     confidence |-> Float(book.confidence),
     position |-> StripOrNone(book.position)]

\* validated_books of openai_service.py:117-129
RECURSIVE ValidatedBooks(_)
ValidatedBooks(books) ==
    IF books = <<>> THEN <<>>
    ELSE LET book == Head(books)
             rest == ValidatedBooks(Tail(books))
         IN IF Considered(book) /\ ValidatedBook(book).title # <<>>
            THEN <<ValidatedBook(book)>> \o rest
            ELSE rest

Returned(books) == [state |-> "returned", books |-> books, err |-> ""]
Raised(err) == [state |-> "raised", books |-> <<>>, err |-> err]
NotCalled == [state |-> "none", books |-> <<>>, err |-> ""]

\* the outcome of identify_books on what the completion call did
OpenAIIdentifyBooks(content, maxBooks) ==
    IF content.kind = "raise" THEN Raised(content.err)
    ELSE IF content.kind \in {"text", "object"} THEN Returned(<<>>)
    ELSE LET books == Take(content.items, maxBooks)
         IN IF \E i \in 1..Len(books) :
                   Considered(books[i]) /\ FloatRaises(books[i].confidence)
            THEN Raised("could not convert confidence to float")
            ELSE Returned(ValidatedBooks(books))

-----------------------------------------------------------------------------
(* GoogleVisionService.identify_books (google_vision_service.py:34-140) *)

\* ---- characters (Python's re and str classes, on the model's alphabet) ----

IsDigit(c) == c \in {"0", "1", "2", "3", "4", "5", "6", "7", "8", "9"}
IsUpper(c) == \E i \in 1..Len(UpperCase) : UpperCase[i] = c

\* a character outside ASCII is one string: "<U+2013>" is the en dash, "<U+00E2>",
\* "<U+20AC>" and "<U+201C>" are the three characters of the source's fourth separator

\* \w
IsWordChar(c) ==
    \/ IsUpper(c)
    \/ \E i \in 1..Len(LowerCase) : LowerCase[i] = c
    \/ IsDigit(c) \/ c = "_" \/ c = "<U+00E2>"

\* the class [\w\s\-:.,\'\"()] of _clean_title (google_vision_service.py:164)
IsTitleChar(c) ==
    IsWordChar(c) \/ c \in {" ", "-", ":", ".", ",", "'", "\"", "(", ")"}

AllDigits(s) == s # <<>> /\ \A i \in 1..Len(s) : IsDigit(s[i])

\* the position of the first c in s (s holds one)
FirstIndex(s, c) ==
    CHOOSE i \in 1..Len(s) : s[i] = c /\ \A j \in 1..(i - 1) : s[j] # c

\* str.split(sep) for a one-character sep
RECURSIVE SplitChar(_, _)
SplitChar(s, c) ==
    IF \A i \in 1..Len(s) : s[i] # c THEN <<s>>
    ELSE LET i == FirstIndex(s, c)
         IN <<SubSeq(s, 1, i - 1)>> \o SplitChar(SubSeq(s, i + 1, Len(s)), c)

\* str.split(): the words between runs of white space
RECURSIVE Words(_)
Words(s) ==
    LET t == LStrip(s)
    IN IF t = <<>> THEN <<>>
       ELSE LET n == IF \E i \in 1..Len(t) : t[i] = " "
                     THEN FirstIndex(t, " ") - 1 ELSE Len(t)
            IN <<SubSeq(t, 1, n)>> \o Words(SubSeq(t, n + 1, Len(t)))

\* ' '.join(words)
RECURSIVE JoinWords(_)
JoinWords(words) ==
    IF words = <<>> THEN <<>>
    ELSE IF Len(words) = 1 THEN words[1]
    ELSE words[1] \o <<" ">> \o JoinWords(Tail(words))

\* '\n'.join(lines)
RECURSIVE JoinLines(_)
JoinLines(lines) ==
    IF lines = <<>> THEN <<>>
    ELSE IF Len(lines) = 1 THEN lines[1]
    ELSE lines[1] \o <<"\n">> \o JoinLines(Tail(lines))

\* ---- _is_likely_metadata (google_vision_service.py:142-159) ----

\* the patterns that are plain words
MetadataWords ==
    [ isbn |->
          <<"i", "s", "b", "n">>,
      barcode |->
          <<"b", "a", "r", "c", "o", "d", "e">>,
      copyright |->
          <<"c", "o", "p", "y", "r", "i", "g", "h", "t">>,
      edition |->
          <<"e", "d", "i", "t", "i", "o", "n">>,
      published |->
          <<"p", "u", "b", "l", "i", "s", "h", "e", "d">>,
      page |->
          <<"p", "a", "g", "e">> ]

\* re.search(r'^[A-Z]{2,4}\d+', t)
CatalogNumber(t) ==
    \E n \in 2..4 :
       /\ Len(t) > n
       /\ \A i \in 1..n : IsUpper(t[i])
       /\ IsDigit(t[n + 1])

\* every pattern is searched in text.lower()
IsLikelyMetadata(text) ==
    LET text_lower == Lower(text)
    IN \/ AllDigits(text_lower)
       \/ IsSubstring(MetadataWords.isbn, text_lower)
       \/ Len(text_lower) >= 2 /\ text_lower[1] = "$" /\ IsDigit(text_lower[2])
       \/ Len(text_lower) = 4 /\ AllDigits(text_lower)
       \/ CatalogNumber(text_lower)
       \/ IsSubstring(MetadataWords.barcode, text_lower)
       \/ IsSubstring(MetadataWords.copyright, text_lower)
       \/ IsSubstring(MetadataWords.edition, text_lower)
       \/ IsSubstring(MetadataWords.published, text_lower)
       \/ IsSubstring(MetadataWords.page, text_lower)

\* ---- _clean_title (google_vision_service.py:161-175) ----

NoiseWords ==
    { <<"t", "h", "e">>, <<"a">>, <<"a", "n">>, <<"a", "n", "d">>, <<"o", "r">>,
      <<"b", "u", "t">>, <<"o", "f">>, <<"i", "n">>, <<"o", "n">>, <<"a", "t">>,
      <<"t", "o">>, <<"f", "o", "r">> }

CleanTitle(text) ==
    LET cleaned == [i \in 1..Len(text) |-> IF IsTitleChar(text[i]) THEN text[i] ELSE " "]
        words == Words(cleaned)
        kept == IF Len(words) > 2
                THEN SelectSeq(words, LAMBDA w : Lower(w) \notin NoiseWords \/ Len(w) > 3)
                ELSE words
    IN JoinWords(kept)

\* ---- _separate_title_author (google_vision_service.py:177-188) ----

Separators ==
    << <<" ", "b", "y", " ">>, <<" ", "B", "Y", " ">>, <<" ", "-", " ">>,
       <<" ", "<U+00E2>", "<U+20AC>", "<U+201C>", " ">>, <<" ", "|", " ">> >>

\* the separators with " by " written without its leading blank
Separators_BareBy ==
    << <<"b", "y", " ">>, <<" ", "B", "Y", " ">>, <<" ", "-", " ">>,
       <<" ", "<U+00E2>", "<U+20AC>", "<U+201C>", " ">>, <<" ", "|", " ">> >>

\* text.split(sep, 1) for a sep that text holds
SplitOnce(text, sep) ==
    LET i == CHOOSE i \in 0..(Len(text) - Len(sep)) :
                /\ SubSeq(text, i + 1, i + Len(sep)) = sep
                /\ \A j \in 0..(i - 1) : SubSeq(text, j + 1, j + Len(sep)) # sep
    IN <<SubSeq(text, 1, i), SubSeq(text, i + Len(sep) + 1, Len(text))>>

\* the loop over seps: the first separator text holds decides
SeparateWith(text, seps) ==
    IF \E k \in 1..Len(seps) : IsSubstring(seps[k], text)
    THEN LET k == CHOOSE k \in 1..Len(seps) :
                     /\ IsSubstring(seps[k], text)
                     /\ \A m \in 1..(k - 1) : ~IsSubstring(seps[m], text)
             parts == SplitOnce(text, seps[k])
         IN [title |-> Strip(parts[1]), author |-> Some(Strip(parts[2]))]
    ELSE [title |-> Strip(text), author |-> None]

SeparateTitleAuthor_BareBy(text) == SeparateWith(text, Separators_BareBy)

SeparateTitleAuthor(text) == SeparateWith(text, Separators)

\* ---- _estimate_confidence (google_vision_service.py:190-214) ----

\* confidence += 0.1 and confidence -= 0.2 in double arithmetic, on the values
\* the function can hold
AddTenth(c) ==
    CASE c = 5000 -> 6000
      [] c = 6000 -> 7000
      [] c = 7000 -> 7999
      [] c = 7999 -> 8999

SubtractFifth(c) ==
    CASE c = 5000 -> 3000
      [] c = 6000 -> 3999
      [] c = 7000 -> 4999
      [] c = 7999 -> 5999
      [] c = 8999 -> 7000
      [] c = 3000 -> 1000
      [] c = 3999 -> 1999
      [] c = 4999 -> 2999
      [] c = 5999 -> 3998

\* re.search(r'\d{3,}', text)
HasLongNumber(text) ==
    \E i \in 1..(Len(text) - 2) : IsDigit(text[i]) /\ IsDigit(text[i + 1]) /\ IsDigit(text[i + 2])

EstimateConfidence(text) ==
    LET words == Words(text)
        c0 == 5000
        c1 == IF Len(text) > 5 THEN AddTenth(c0) ELSE c0
        c2 == IF Len(words) > 1 THEN AddTenth(c1) ELSE c1
        c3 == IF IsUpper(text[1]) THEN AddTenth(c2) ELSE c2
        c4 == IF \E i \in 2..Len(words) : IsUpper(words[i][1]) THEN AddTenth(c3) ELSE c3
        c5 == IF HasLongNumber(text) THEN SubtractFifth(c4) ELSE c4
        c6 == IF Len(text) > 100 THEN SubtractFifth(c5) ELSE c5
    \* max(0.1, min(1.0, confidence))
    IN IF c6 > 10000 THEN 10000 ELSE IF c6 < 1000 THEN 1000 ELSE c6

\* ---- _extract_books_from_text (google_vision_service.py:91-140) ----

\* [line.strip() for line in full_text.split('\n') if line.strip()]
RECURSIVE StrippedLines(_)
StrippedLines(raw) ==
    IF raw = <<>> THEN <<>>
    ELSE IF Strip(Head(raw)) = <<>> THEN StrippedLines(Tail(raw))
    ELSE <<Strip(Head(raw))>> \o StrippedLines(Tail(raw))

OcrBook(cleaned_title) ==
    [title |-> SeparateTitleAuthor(cleaned_title).title,
     author |-> SeparateTitleAuthor(cleaned_title).author,
     confidence |-> EstimateConfidence(cleaned_title),
     position |-> None]

\* the loop of google_vision_service.py:105-135 from the line at the head of
\* lines on, with the books and the processed_titles the lines before it gave
RECURSIVE ExtractLoop(_, _, _, _)
ExtractLoop(lines, books, processed_titles, maxBooks) ==
    IF lines = <<>> THEN books
    ELSE LET line == Head(lines)
             cleaned_title == CleanTitle(line)
         IN IF \/ Len(line) < 3
               \/ IsLikelyMetadata(line)
               \/ cleaned_title = <<>>
               \/ Lower(cleaned_title) \in processed_titles
            THEN ExtractLoop(Tail(lines), books, processed_titles, maxBooks)
            ELSE IF Len(books) + 1 >= maxBooks
            THEN Append(books, OcrBook(cleaned_title))
            ELSE ExtractLoop(Tail(lines), Append(books, OcrBook(cleaned_title)),
                             processed_titles \cup {Lower(cleaned_title)}, maxBooks)

\* books.sort(key=lambda x: x['confidence'], reverse=True): a stable sort
RECURSIVE SortByConfidence(_)
SortByConfidence(books) ==
    IF books = <<>> THEN <<>>
    ELSE LET sorted == SortByConfidence(SubSeq(books, 1, Len(books) - 1))
             book == books[Len(books)]
             n == Cardinality({i \in 1..Len(sorted) :
                                 sorted[i].confidence >= book.confidence})
         IN SubSeq(sorted, 1, n) \o <<book>> \o SubSeq(sorted, n + 1, Len(sorted))

\* ExtractBooksFromText that reads every line before it sorts and cuts
ExtractBooksFromText_SortsAll(detected, maxBooks) ==
    IF detected = <<>> THEN <<>>
    ELSE LET full_text == detected[1]
             lines == StrippedLines(SplitChar(full_text, "\n"))
         IN Take(SortByConfidence(ExtractLoop(lines, <<>>, {}, Len(lines) + 1)), maxBooks)

\* texts: the descriptions of the annotations; the first is the full text
ExtractBooksFromText(detected, maxBooks) ==
    IF detected = <<>> THEN <<>>
    ELSE LET full_text == detected[1]
             lines == StrippedLines(SplitChar(full_text, "\n"))
         IN Take(SortByConfidence(ExtractLoop(lines, <<>>, {}, maxBooks)), maxBooks)

\* ---- the texts _detect_text returns ----

\* 101 characters
LongLine == [i \in 1..101 |-> <<"n", "o", "1", "2", "3", " ">>[((i - 1) % 6) + 1]]

\* the lines the OCR can read on a shelf, combined into texts of several lines
OcrLines ==
    { Text.dune \o <<" ", "b", "y", " ">> \o Text.frank \o <<" ">> \o Text.herbert,
      Text.dune \o <<" ", "-", " ">> \o Text.herbert,
      Lower(Text.emma),
      <<" ">> \o Text.emma \o <<" ">>,
      <<"A", "B", "1", "2", "3">> }

\* further lines, each read as a text of its own
SingleLines ==
    { Text.nineteen84,
      Text.byGeorgeOrwell,
      Text.fahrenheit451,
      Text.isbnLine,
      Text.copyrightLine,
      Text.theArtOfWar,
      Text.emma \o <<" ", "|", " ">> \o Text.austen,
      Text.emma \o <<" ", "<U+2013>", " ">> \o Text.austen,
      <<"#", "#", "#">>,
      <<"$", "1", "2">>,
      Text.expedition,
      LongLine }

\* the text of the spec's example
OrwellText == JoinLines(<<Text.nineteen84, Text.byGeorgeOrwell, Text.isbnLine, Text.copyrightLine>>)

\* no annotation at all, or the full text: up to MaxOcr of the OcrLines, one of
\* the SingleLines, or the example
OcrTexts ==
    {<<>>} \cup {<<OrwellText>>}
    \cup {<<line>> : line \in SingleLines}
    \cup {<<JoinLines(ls)>> : ls \in SeqsUpTo(OcrLines, MaxOcr) \ {<<>>}}

GoogleErrors == {"Google Vision API error: quota", "image file not readable"}

\* what _detect_text does: it raises or returns the detected texts
DetectTextOutcomes ==
    [kind : {"raise"}, err : GoogleErrors, texts : {<<>>}]
    \cup [kind : {"texts"}, err : {""}, texts : OcrTexts]

\* what _extract_books_from_text returns for each text and max_books of the
\* model, computed once
ExtractedBooks ==
    [detected \in OcrTexts, maxBooks \in 0..MaxBooksBound |->
        ExtractBooksFromText(detected, maxBooks)]

\* the lines of each text the loop of google_vision_service.py:105-135 accepts
\* when nothing stops it (no line count reaches the cap)
AcceptedLines ==
    [detected \in OcrTexts |->
        IF detected = <<>> THEN <<>>
        ELSE LET lines == StrippedLines(SplitChar(detected[1], "\n"))
             IN ExtractLoop(lines, <<>>, {}, Len(lines) + 1)]

\* identify_books (google_vision_service.py:34-58)
GoogleIdentifyBooks(detected, maxBooks) ==
    IF detected.kind = "raise" THEN Raised(detected.err)
    ELSE Returned(ExtractedBooks[detected.texts, maxBooks])

-----------------------------------------------------------------------------
(* RecognizedBook (schemas/book.py:58-63) *)

\* pydantic accepts the fields of one book: confidence within ge=0, le=1, and
\* position None (a str is no Dict[str, Any])
RecognizedBookValid(book) ==
    /\ book.confidence >= 0
    /\ book.confidence <= 10000
    /\ ~book.position.some

RecognizedBook(book) ==
    [title |-> book.title, author |-> book.author,
     confidence |-> book.confidence, position |-> book.position]

\* the list comprehension of scan.py:107-114 and 126-133: it raises when one
\* book does not validate
ToRecognizedBooks(books) ==
    IF \A i \in 1..Len(books) : RecognizedBookValid(books[i])
    THEN Returned([i \in 1..Len(books) |-> RecognizedBook(books[i])])
    ELSE Raised("validation error for RecognizedBook")

-----------------------------------------------------------------------------
(* scan_shelf (scan.py:56-174) *)

HTTPException(status, detail) == [status |-> status, detail |-> detail]

ShelfScanResponse(books, api, ok, msg) ==
    [recognized_books |-> books, total_books_found |-> Len(books),
     api_used |-> api, success |-> ok, error_message |-> msg]

\* raise HTTPException(...) : it passes both "except HTTPException: raise"
RaiseHTTP(status, detail) ==
    /\ http_error' = <<HTTPException(status, detail)>>
    /\ response' = response
    /\ pc' = "done"

\* ScanFailed re-raising instead of answering
ScanFailed_Raises(e) ==
    /\ http_error' = <<HTTPException(500, <<"Scan failed: ", e>>)>>
    /\ response' = response
    /\ pc' = "done"

\* the outer "except Exception as e" of scan.py:164-174
ScanFailed(e) ==
    /\ response' = <<ShelfScanResponse(<<>>, "none", FALSE, <<"Scan failed: ", e>>)>>
    /\ http_error' = http_error
    /\ pc' = "done"

\* scan.py:71-91: the session, the image, save_uploaded_image (which may raise)
ValidateRequest ==
    /\ pc = "validate"
    /\ \E save_ok \in BOOLEAN :
          IF session = "missing" THEN RaiseHTTP(404, <<"Session not found">>)
          ELSE IF session = "expired" THEN RaiseHTTP(401, <<"Session expired">>)
          ELSE IF ~image_ok THEN RaiseHTTP(400, <<"Invalid image">>)
          ELSE IF ~save_ok THEN ScanFailed("cannot write the upload")
          ELSE /\ pc' = "init_services"
               /\ UNCHANGED <<response, http_error>>
    /\ UNCHANGED <<openai_service, google_service, recognized_books, api_used,
                   error_message, success, primary_calls, secondary_calls,
                   primary_result, texts, secondary_result>>
    /\ UNCHANGED otherVars
    /\ UNCHANGED <<vision_content, fetched, settingsVars, requestVars, recRequestVars,
                   recVars, dbVars>>

\* scan.py:93-100: both constructors run before any provider is tried, outside
\* the inner try; what they raise reaches the outer "except Exception".
\* vision.ImageAnnotatorClient() may raise too (no credentials).
InitServices ==
    /\ pc = "init_services"
    /\ \E client_ok \in BOOLEAN :
          IF ~OPENAI_API_KEY
          THEN /\ ScanFailed("OpenAI API key not configured")
               /\ UNCHANGED <<openai_service, google_service>>
          ELSE /\ openai_service' = TRUE
               /\ IF ~use_fallback
                  THEN /\ google_service' = FALSE
                       /\ pc' = "primary"
                       /\ UNCHANGED <<response, http_error>>
                  ELSE IF ~GOOGLE_VISION_AVAILABLE
                  THEN /\ ScanFailed("google-cloud-vision package not installed")
                       /\ UNCHANGED google_service
                  ELSE IF ~GOOGLE_CLOUD_PROJECT
                  THEN /\ ScanFailed("Google Cloud project not configured")
                       /\ UNCHANGED google_service
                  ELSE IF ~client_ok
                  THEN /\ ScanFailed("default credentials not found")
                       /\ UNCHANGED google_service
                  ELSE /\ google_service' = TRUE
                       /\ pc' = "primary"
                       /\ UNCHANGED <<response, http_error>>
    /\ recognized_books' = <<>>
    /\ api_used' = "none"
    /\ error_message' = <<>>
    /\ success' = FALSE
    /\ UNCHANGED <<primary_calls, secondary_calls, primary_result, texts,
                   secondary_result>>
    /\ UNCHANGED otherVars
    /\ UNCHANGED <<vision_content, fetched, settingsVars, requestVars, recRequestVars,
                   recVars, dbVars>>

\* PrimaryOutcome without the "raise" of scan.py:119-120
PrimaryOutcome_NoRaise(r) ==
    LET conv == IF r.state = "returned" THEN ToRecognizedBooks(r.books) ELSE r
    IN /\ pc' = "fallback"
       /\ UNCHANGED <<response, http_error>>
       /\ IF conv.state = "returned"
          THEN /\ recognized_books' = conv.books
               /\ api_used' = "openai"
               /\ success' = TRUE
               /\ UNCHANGED error_message
          ELSE /\ error_message' = <<"OpenAI failed: ", conv.err>>
               /\ UNCHANGED <<recognized_books, api_used, success>>

\* scan.py:104-120 on the outcome r of openai_service.identify_books
PrimaryOutcome(r) ==
    LET conv == IF r.state = "returned" THEN ToRecognizedBooks(r.books) ELSE r
    IN IF conv.state = "returned"
       THEN /\ recognized_books' = conv.books
            /\ api_used' = "openai"
            /\ success' = TRUE
            /\ pc' = "fallback"
            /\ UNCHANGED <<error_message, response, http_error>>
       ELSE /\ error_message' = <<"OpenAI failed: ", conv.err>>
            /\ UNCHANGED <<recognized_books, api_used, success>>
            /\ IF ~use_fallback
               \* "raise" (scan.py:120) reaches "except Exception" (scan.py:147)
               THEN RaiseHTTP(500, <<"AI processing failed: ", conv.err>>)
               ELSE /\ pc' = "fallback"
                    /\ UNCHANGED <<response, http_error>>

PrimaryAttempt ==
    /\ pc = "primary"
    /\ IF OPENAI_API_KEY
       THEN \E content \in VisionContents :
               LET r == OpenAIIdentifyBooks(content, max_books)
               IN /\ primary_calls' = primary_calls + 1
                  /\ vision_content' = content
                  /\ primary_result' = r
                  /\ PrimaryOutcome(r)
       ELSE /\ pc' = "fallback"
            /\ UNCHANGED <<recognized_books, api_used, error_message, success,
                           primary_calls, vision_content, primary_result, response,
                           http_error>>
    /\ UNCHANGED <<openai_service, google_service, secondary_calls, texts,
                   secondary_result>>
    /\ UNCHANGED otherVars
    /\ UNCHANGED <<fetched, settingsVars, requestVars, recRequestVars, recVars, dbVars>>

\* FallbackOutcome with the assignment of scan.py:134 left out
FallbackOutcome_NoApiUsed(r) ==
    LET conv == IF r.state = "returned" THEN ToRecognizedBooks(r.books) ELSE r
    IN IF conv.state = "returned"
       THEN /\ recognized_books' = conv.books
            /\ success' = TRUE
            /\ UNCHANGED <<api_used, error_message>>
       ELSE /\ error_message' = <<"Google Vision also failed: ", conv.err>>
            /\ UNCHANGED <<recognized_books, api_used, success>>

\* scan.py:125-137 on the outcome r of google_service.identify_books
FallbackOutcome(r) ==
    LET conv == IF r.state = "returned" THEN ToRecognizedBooks(r.books) ELSE r
    IN IF conv.state = "returned"
       THEN /\ recognized_books' = conv.books
            /\ api_used' = "google"
            /\ success' = TRUE
            /\ UNCHANGED error_message
       ELSE /\ error_message' = <<"Google Vision also failed: ", conv.err>>
            /\ UNCHANGED <<recognized_books, api_used, success>>

\* the condition of scan.py:123
FallbackWanted == ~success /\ use_fallback /\ google_service /\ GOOGLE_CLOUD_PROJECT

FallbackAttempt ==
    /\ pc = "fallback"
    /\ IF FallbackWanted
       THEN \E detected \in DetectTextOutcomes :
               LET r == GoogleIdentifyBooks(detected, max_books)
               IN /\ secondary_calls' = secondary_calls + 1
                  /\ texts' = detected.texts
                  /\ secondary_result' = r
                  /\ FallbackOutcome(r)
       ELSE UNCHANGED <<recognized_books, api_used, error_message, success,
                        secondary_calls, texts, secondary_result>>
    /\ pc' = "finish"
    /\ UNCHANGED <<openai_service, google_service, primary_calls, primary_result,
                   response, http_error>>
    /\ UNCHANGED otherVars
    /\ UNCHANGED <<vision_content, fetched, settingsVars, requestVars, recRequestVars,
                   recVars, dbVars>>

\* Finish with error_message passed on as it is (scan.py:159 without its condition)
Finish_KeepsError ==
    /\ pc = "finish"
    /\ IF ~success
       THEN RaiseHTTP(500, IF error_message # <<>> THEN error_message
                           ELSE <<"Both AI services failed">>)
       ELSE /\ response' = <<ShelfScanResponse(recognized_books, api_used, success,
                                error_message)>>
            /\ http_error' = http_error
            /\ pc' = "done"
    /\ UNCHANGED <<openai_service, google_service, recognized_books, api_used,
                   error_message, success, primary_calls, secondary_calls,
                   primary_result, texts, secondary_result>>
    /\ UNCHANGED otherVars
    /\ UNCHANGED <<vision_content, fetched, settingsVars, requestVars, recRequestVars,
                   recVars, dbVars>>

\* scan.py:139-160
Finish ==
    /\ pc = "finish"
    /\ IF ~success
       THEN RaiseHTTP(500, IF error_message # <<>> THEN error_message
                           ELSE <<"Both AI services failed">>)
       ELSE /\ response' = <<ShelfScanResponse(recognized_books, api_used, success,
                                IF ~success THEN error_message ELSE <<>>)>>
            /\ http_error' = http_error
            /\ pc' = "done"
    /\ UNCHANGED <<openai_service, google_service, recognized_books, api_used,
                   error_message, success, primary_calls, secondary_calls,
                   primary_result, texts, secondary_result>>
    /\ UNCHANGED otherVars
    /\ UNCHANGED <<vision_content, fetched, settingsVars, requestVars, recRequestVars,
                   recVars, dbVars>>

-----------------------------------------------------------------------------
(* Strings of the recommendation side.  A title, an author and a reason are    *)
(* only copied and compared, so they are TLA+ strings; a genre is searched     *)
(* (str.lower, "in"), so it is a sequence of characters.                       *)

Genre ==
    [ fiction |->
          <<"F", "i", "c", "t", "i", "o", "n">>,
      contemporaryFiction |->
          <<"C", "o", "n", "t", "e", "m", "p", "o", "r", "a", "r", "y", " ", "F", "i", "c",
          "t", "i", "o", "n">>,
      memoir |->
          <<"M", "e", "m", "o", "i", "r">>,
      literaryFiction |->
          <<"L", "i", "t", "e", "r", "a", "r", "y", " ", "F", "i", "c", "t", "i", "o", "n">>,
      selfHelp |->
          <<"S", "e", "l", "f", "-", "H", "e", "l", "p">>,
      historicalFiction |->
          <<"H", "i", "s", "t", "o", "r", "i", "c", "a", "l", " ", "F", "i", "c", "t", "i",
          "o", "n">>,
      sciFi |->
          <<"S", "c", "i", "-", "F", "i">>,
      poetry |->
          <<"P", "o", "e", "t", "r", "y">> ]

-----------------------------------------------------------------------------
(* OpenAIVisionService.get_book_recommendations (openai_service.py:143-213) *)

\* a JSON value read with ai_rec.get(key): absent, null, or a string
RMissing == [k |-> "missing", s |-> ""]
RNull == [k |-> "null", s |-> ""]
RStr(s) == [k |-> "str", s |-> s]

\* one element of the list: author "" and publication_year 0 stand for None
RecEntry(t, a, r, sim, score, g, y) ==
    [dict |-> TRUE, title |-> t, author |-> a, reason |-> r, similarity_to |-> sim,
     appeal_score |-> score, genre |-> g, publication_year |-> y]

\* an element that is no dict: a character of a JSON string, a number, ...
NonDict ==
    [dict |-> FALSE, title |-> RMissing, author |-> "", reason |-> RMissing,
     similarity_to |-> RMissing, appeal_score |-> ConfMissing, genre |-> None,
     publication_year |-> 0]

\* the elements the language model can put in its JSON array
RecEntries ==
    { RecEntry(RStr("Project Hail Mary"), "Andy Weir", RStr("Matches your taste"),
               RStr("1984"), Conf(85), Some(Genre.sciFi), 2021),
      RecEntry(RStr("Educated"), "Tara Westover", RMissing, RNull, ConfMissing,
               Some(Genre.memoir), 2018),
      RecEntry(RStr("Circe"), "Madeline Miller", RNull, RMissing, Conf(80), None, 0),
      RecEntry(RStr("Dune"), "", RStr(""), RStr(""), Conf(120), None, 0),
      RecEntry(RMissing, "Nobody", RStr("No title"), RMissing, Conf(50), None, 0),
      RecEntry(RStr(""), "", RStr("Empty title"), RMissing, Conf(50), None, 0),
      RecEntry(RNull, "", RStr("Null title"), RMissing, Conf(50), None, 0),
      NonDict }

\* what the chat completion call does: it raises, or its content is not JSON
\* ("text"), or is JSON: an object, null or a number ("scalar"), a string
\* (items: its characters), or an array
GeneratorContents ==
    [kind : {"raise"}, err : ProviderErrors, items : {<<>>}]
    \cup [kind : {"text", "object", "scalar"}, err : {""}, items : {<<>>}]
    \cup [kind : {"string"}, err : {""}, items : {<<>>, <<NonDict, NonDict>>}]
    \cup [kind : {"array"}, err : {""}, items : SeqsUpTo(RecEntries, MaxRecItems)]

GenReturned(kind, recs) ==
    [kind |-> kind, state |-> "returned", recs |-> recs, err |-> ""]
GenRaised(kind, err) == [kind |-> kind, state |-> "raised", recs |-> <<>>, err |-> err]
GenNotCalled == [kind |-> "", state |-> "none", recs |-> <<>>, err |-> ""]

\* openai_service.py:201-213: a JSONDecodeError gives [], a value that cannot
\* be sliced raises, a list and a str are sliced
GetBookRecommendations(content, maxRecs) ==
    IF content.kind = "raise" THEN GenRaised(content.kind, content.err)
    ELSE IF content.kind = "text" THEN GenReturned(content.kind, <<>>)
    ELSE IF content.kind \in {"object", "scalar"}
    THEN GenRaised(content.kind, "recommendations cannot be sliced")
    ELSE GenReturned(content.kind, Take(content.items, maxRecs))

-----------------------------------------------------------------------------
(* _get_fallback_recommendations (recommend.py:228-295) *)

Seed(t, a, r, score, g, y) ==
    RecEntry(RStr(t), a, RStr(r), RMissing, Conf(score), Some(g), y)

\* recommend.py:231-272
FallbackBooks ==
    << Seed("The Seven Husbands of Evelyn Hugo", "Taylor Jenkins Reid",
            "Popular contemporary fiction with compelling characters", 80,
            Genre.contemporaryFiction, 2017),
       Seed("Educated", "Tara Westover",
            "Critically acclaimed memoir about education and family", 90,
            Genre.memoir, 2018),
       Seed("The Midnight Library", "Matt Haig",
            "Thought-provoking fiction about life choices", 75,
            Genre.literaryFiction, 2020),
       Seed("Atomic Habits", "James Clear",
            "Popular self-improvement book about building good habits", 85,
            Genre.selfHelp, 2018),
       Seed("The Song of Achilles", "Madeline Miller",
            "Beautifully written retelling of Greek mythology", 80,
            Genre.historicalFiction, 2011) >>

\* recommend.py:284-293
DefaultFallbackBooks ==
    << Seed("The Seven Husbands of Evelyn Hugo", "Taylor Jenkins Reid",
            "Popular contemporary fiction", 80, Genre.contemporaryFiction, 2017) >>

\* any(genre in book["genre"].lower() for genre in user_genres)
GenreMatches(seed, genres) ==
    \E i \in 1..Len(genres) : IsSubstring(Lower(genres[i]), Lower(seed.genre.s))

\* the list comprehension of recommend.py:277-280
RECURSIVE FilterByGenre(_, _)
FilterByGenre(books, genres) ==
    IF books = <<>> THEN <<>>
    ELSE IF GenreMatches(Head(books), genres)
    THEN <<Head(books)>> \o FilterByGenre(Tail(books), genres)
    ELSE FilterByGenre(Tail(books), genres)

\* GetFallbackRecommendations without the default of recommend.py:283-293
GetFallbackRecommendations_NoDefault(genres, maxRecs) ==
    Take(IF genres # <<>> THEN FilterByGenre(FallbackBooks, genres) ELSE FallbackBooks,
         maxRecs)

GetFallbackRecommendations(genres, maxRecs) ==
    LET filtered == IF genres # <<>> THEN FilterByGenre(FallbackBooks, genres)
                    ELSE FallbackBooks
        books == IF filtered = <<>> THEN DefaultFallbackBooks ELSE filtered
    IN Take(books, maxRecs)

\* the favorite_genres a session can have stored
GenreLists ==
    { <<>>, <<Genre.memoir>>, <<Lower(Genre.fiction)>>, <<Genre.poetry>>,
      <<<<"M", "E", "M", "O", "I", "R">>, Genre.poetry>>, <<<<>>>> }

-----------------------------------------------------------------------------
(* Storage: the tables books and book_recommendations (models/book.py) and the *)
(* request's AsyncSession (core/database.py:28-56, autoflush=False).           *)

\* ai_rec.get("appeal_score", 0.5)
Score(c) == IF c.k = "missing" THEN Conf(50) ELSE c

\* Book(...) of recommend.py:90-97, with the id its flush gives it
BookRow(id, ai_rec, source) ==
    [id |-> id, title |-> ai_rec.title.s, author |-> ai_rec.author,
     genre |-> ai_rec.genre, publication_year |-> ai_rec.publication_year,
     source |-> source, confidence_score |-> Score(ai_rec.appeal_score)]

NoBook ==
    [id |-> 0, title |-> "", author |-> "", genre |-> None, publication_year |-> 0,
     source |-> "", confidence_score |-> ConfMissing]

\* rows the catalog may hold before the request
SeededBooks ==
    { [id |-> 1, title |-> "Educated", author |-> "Tara Westover",
       genre |-> Some(Genre.memoir), publication_year |-> 2018, source |-> "seed",
       confidence_score |-> Conf(90)],
      [id |-> 2, title |-> "Circe", author |-> "Madeline Miller",
       genre |-> None, publication_year |-> 2018, source |-> "seed",
       confidence_score |-> Conf(100)] }

\* BookRecommendation(...) of recommend.py:102-110.  The columns with a default
\* (id: uuid4, is_saved: False, created_at: server default now()) are unset
\* until the row is flushed (models/book.py:93,104,113): id 0, is_saved "None"
\* and created_at 0 stand for Python's None.
BookRecommendation(ai_rec, bk) ==
    [id |-> 0,
     book_id |-> bk.id,
     reason |-> IF ai_rec.reason.k = "missing"
                THEN RStr("AI recommended based on your preferences")
                ELSE ai_rec.reason,
     score |-> Score(ai_rec.appeal_score),
     source_books |-> IF ai_rec.similarity_to.k = "str" /\ ai_rec.similarity_to.s # ""
                      THEN <<ai_rec.similarity_to.s>> ELSE <<>>,
     recommendation_type |-> "ai",
     is_saved |-> "None",
     created_at |-> 0]

NoRecommendation ==
    [id |-> 0, book_id |-> 0, reason |-> RMissing, score |-> ConfMissing,
     source_books |-> <<>>, recommendation_type |-> "", is_saved |-> "None",
     created_at |-> 0]

\* the INSERT of a flush fills the defaults of a row not yet flushed
FlushRow(row, id) == [row EXCEPT !.id = id, !.is_saved = "False", !.created_at = 1]

RECURSIVE FlushRows(_, _)
FlushRows(rows, id) ==
    IF rows = <<>> THEN <<>>
    ELSE IF Head(rows).id = 0
    THEN <<FlushRow(Head(rows), id)>> \o FlushRows(Tail(rows), id + 1)
    ELSE <<Head(rows)>> \o FlushRows(Tail(rows), id)

Unflushed(rows) == Cardinality({i \in 1..Len(rows) : rows[i].id = 0})

\* str(recommendation.id) if hasattr(recommendation, 'id') else "pending": a
\* mapped object always has the attribute, so an unset id gives "None"
IdText(id) == IF id = 0 THEN [k |-> "None", n |-> 0] ELSE [k |-> "uuid", n |-> id]

\* a float field with ge=0, le=1 that may be None
OptionalUnitFloat(c) == c.k = "null" \/ (c.k = "num" /\ c.n >= 0 /\ c.n <= 10000)

\* pydantic accepts the fields given to BookRecommendationResponse at
\* recommend.py:113-122 (schemas/book.py:36-45 and, for book, 10-30):
\* created_at must be a datetime ("pending" is none), is_saved a bool
BookRecommendationResponseValid(row, bk) ==
    /\ row.created_at # 0
    /\ row.is_saved # "None"
    /\ OptionalUnitFloat(row.score)
    /\ OptionalUnitFloat(bk.confidence_score)

BookRecommendationResponse(row, bk) ==
    [id |-> IdText(row.id), book |-> bk, reason |-> row.reason, score |-> row.score,
     source_books |-> row.source_books,
     recommendation_type |-> row.recommendation_type,
     is_saved |-> row.is_saved, created_at |-> row.created_at]

-----------------------------------------------------------------------------
(* generate_recommendations (recommend.py:23-137) *)

\* an HTTPException leaves the endpoint; get_database will see it
RecRaise(status, detail) ==
    /\ rec_error' = <<HTTPException(status, detail)>>
    /\ rec_pc' = "raising"

\* "except Exception as e" of recommend.py:136-137
RecFail(e) == RecRaise(500, <<"Error generating recommendations: ", e>>)

\* recommend.py:32-67
RecValidate ==
    /\ rec_pc = "validate"
    /\ IF rec_session = "missing" THEN RecRaise(404, <<"Session not found">>)
       ELSE IF rec_session = "expired" THEN RecRaise(401, <<"Session expired">>)
       ELSE IF ~has_preferences THEN RecRaise(404, <<"User preferences not found">>)
       ELSE IF ~OPENAI_API_KEY THEN RecFail("OpenAI API key not configured")
       ELSE /\ rec_pc' = "generate"
            /\ UNCHANGED rec_error
    /\ UNCHANGED <<generator_result, fallback_used, ai_recommendations, idx, book_row,
                   recommendation, recommendations, rec_returned>>
    /\ UNCHANGED <<otherVars, vision_content, fetched, settingsVars, requestVars, scanVars,
                   recRequestVars, dbVars>>

\* recommend.py:69-80
RecGenerate ==
    /\ rec_pc = "generate"
    /\ \E content \in GeneratorContents :
          LET r == GetBookRecommendations(content, max_recommendations)
          IN /\ generator_result' = r
             /\ IF r.state = "raised"
                THEN /\ ai_recommendations' =
                          GetFallbackRecommendations(favorite_genres, max_recommendations)
                     /\ fallback_used' = TRUE
                ELSE /\ ai_recommendations' = r.recs
                     /\ UNCHANGED fallback_used
    /\ idx' = 1
    /\ recommendations' = <<>>
    /\ rec_pc' = "loop"
    /\ UNCHANGED <<book_row, recommendation, rec_returned, rec_error>>
    /\ UNCHANGED <<otherVars, vision_content, fetched, settingsVars, requestVars, scanVars,
                   recRequestVars, dbVars>>

\* the rows select(Book).where(Book.title == title) finds: committed rows and
\* rows this transaction flushed; the column is NOT NULL, so null finds none
BooksTitled(title) ==
    {b \in db_books \cup tx_books : title.k = "str" /\ b.title = title.s}

\* db.add(book); await db.flush(): the INSERT of the book and of every row
\* added before it
FlushBook(ai_rec) ==
    LET row == BookRow(next_id, ai_rec, "ai_recommendation")
    IN /\ book_row' = row
       /\ tx_books' = tx_books \cup {row}
       /\ tx_recommendations' = FlushRows(tx_recommendations, next_id + 1)
       /\ next_id' = next_id + 1 + Unflushed(tx_recommendations)

\* recommend.py:81-99: ai_rec["title"], the lookup, the new Book and its flush
RecLookupBook ==
    /\ rec_pc = "loop"
    /\ idx <= Len(ai_recommendations)
    /\ LET ai_rec == ai_recommendations[idx]
       IN \E flush_ok \in BOOLEAN :
             IF ~ai_rec.dict \/ ai_rec.title.k = "missing"
             THEN /\ RecFail("'title'")
                  /\ UNCHANGED <<book_row, dbVars>>
             ELSE IF Cardinality(BooksTitled(ai_rec.title)) > 1
             THEN /\ RecFail("Multiple rows were found when one or none was required")
                  /\ UNCHANGED <<book_row, dbVars>>
             ELSE IF Cardinality(BooksTitled(ai_rec.title)) = 1
             THEN /\ book_row' = CHOOSE b \in BooksTitled(ai_rec.title) : TRUE
                  /\ rec_pc' = "record"
                  /\ UNCHANGED <<rec_error, dbVars>>
             ELSE IF ai_rec.title.k = "null"
             THEN /\ RecFail("null value in column title")
                  /\ UNCHANGED <<book_row, dbVars>>
             ELSE IF ~flush_ok
             THEN /\ RecFail("database error on flush")
                  /\ UNCHANGED <<book_row, dbVars>>
             ELSE /\ FlushBook(ai_rec)
                  /\ rec_pc' = "record"
                  /\ UNCHANGED <<rec_error, db_books, db_recommendations>>
    /\ UNCHANGED <<generator_result, fallback_used, ai_recommendations, idx,
                   recommendation, recommendations, rec_returned>>
    /\ UNCHANGED otherVars
    /\ UNCHANGED <<vision_content, fetched, settingsVars, requestVars, scanVars, recRequestVars>>

\* recommend.py:101-111
RecAddRecommendation ==
    /\ rec_pc = "record"
    /\ recommendation' = BookRecommendation(ai_recommendations[idx], book_row)
    /\ tx_recommendations' = Append(tx_recommendations, recommendation')
    /\ rec_pc' = "respond"
    /\ UNCHANGED <<generator_result, fallback_used, ai_recommendations, idx, book_row,
                   recommendations, rec_returned, rec_error>>
    /\ UNCHANGED <<db_books, db_recommendations, tx_books, next_id>>
    /\ UNCHANGED otherVars
    /\ UNCHANGED <<vision_content, fetched, settingsVars, requestVars, scanVars, recRequestVars>>

\* recommend.py:113-122
RecBuildResponse ==
    /\ rec_pc = "respond"
    /\ IF BookRecommendationResponseValid(recommendation, book_row)
       THEN /\ recommendations' =
                 Append(recommendations, BookRecommendationResponse(recommendation, book_row))
            /\ idx' = idx + 1
            /\ rec_pc' = "loop"
            /\ UNCHANGED rec_error
       ELSE /\ RecFail("validation error for BookRecommendationResponse")
            /\ UNCHANGED <<recommendations, idx>>
    /\ UNCHANGED <<generator_result, fallback_used, ai_recommendations, book_row,
                   recommendation, rec_returned>>
    /\ UNCHANGED <<otherVars, vision_content, fetched, settingsVars, requestVars, scanVars,
                   recRequestVars, dbVars>>

\* await db.commit() (recommend.py:124): flush what is pending, then make the
\* transaction's rows visible
Commit ==
    LET rows == FlushRows(tx_recommendations, next_id)
    IN /\ db_books' = db_books \cup tx_books
       /\ db_recommendations' = db_recommendations \cup {rows[i] : i \in 1..Len(rows)}
       /\ tx_books' = {}
       /\ tx_recommendations' = <<>>
       /\ next_id' = next_id + Unflushed(tx_recommendations)
       /\ recommendation' = IF rows = <<>> THEN recommendation ELSE rows[Len(rows)]

RecCommit ==
    /\ rec_pc = "loop"
    /\ idx > Len(ai_recommendations)
    /\ \E commit_ok \in BOOLEAN :
          IF commit_ok
          THEN /\ Commit
               /\ rec_pc' = "refresh"
               /\ UNCHANGED rec_error
          ELSE /\ RecFail("database error on commit")
               /\ UNCHANGED <<recommendation, dbVars>>
    /\ UNCHANGED <<generator_result, fallback_used, ai_recommendations, idx, book_row,
                   recommendations, rec_returned>>
    /\ UNCHANGED otherVars
    /\ UNCHANGED <<vision_content, fetched, settingsVars, requestVars, scanVars, recRequestVars>>

\* recommend.py:126-132: every response whose id is "pending" gets the id of
\* the loop's last recommendation; then the list is returned
RecReturn ==
    /\ rec_pc = "refresh"
    /\ recommendations' =
          [i \in 1..Len(recommendations) |->
              IF recommendations[i].id.k = "pending"
              THEN [recommendations[i] EXCEPT !.id = IdText(recommendation.id)]
              ELSE recommendations[i]]
    /\ rec_returned' = <<recommendations'>>
    /\ rec_pc' = "done"
    /\ UNCHANGED <<generator_result, fallback_used, ai_recommendations, idx, book_row,
                   recommendation, rec_error>>
    /\ UNCHANGED <<otherVars, vision_content, fetched, settingsVars, requestVars, scanVars,
                   recRequestVars, dbVars>>

\* Rollback that keeps what was flushed (a commit in its place)
Rollback_KeepsFlushed ==
    /\ db_books' = db_books \cup tx_books
    /\ db_recommendations' =
          db_recommendations
              \cup {tx_recommendations[i] : i \in 1..Len(tx_recommendations)}
    /\ tx_books' = {}
    /\ tx_recommendations' = <<>>
    /\ UNCHANGED next_id

\* session.rollback() (core/database.py:51-54)
Rollback ==
    /\ tx_books' = {}
    /\ tx_recommendations' = <<>>
    /\ UNCHANGED <<db_books, db_recommendations, next_id>>

\* get_database (core/database.py:45-56) when the endpoint raised: the
\* exception arrives at the yield, the session is rolled back, and it goes on
\* to the caller
RecRollback ==
    /\ rec_pc = "raising"
    /\ Rollback
    /\ rec_pc' = "done"
    /\ UNCHANGED <<generator_result, fallback_used, ai_recommendations, idx, book_row,
                   recommendation, recommendations, rec_returned, rec_error>>
    /\ UNCHANGED otherVars
    /\ UNCHANGED <<vision_content, fetched, settingsVars, requestVars, scanVars, recRequestVars>>

-----------------------------------------------------------------------------
(* A second generate_recommendations request on a session and a transaction    *)
(* of its own, followed from one await to the next through the first           *)
(* iteration of its loop (recommend.py:81-122).  A transaction reads the       *)
(* committed rows and its own.                                                 *)

\* the elements the second request's generator gives first
OtherEntries == {e \in RecEntries : e.dict /\ e.title.k = "str" /\ e.title.s # ""}

\* recommend.py:23-81: the request arrives at its loop
OtherStart ==
    /\ other_pc = "idle"
    /\ \E ai_rec \in OtherEntries : other_ai_rec' = ai_rec
    /\ other_pc' = "select"
    /\ UNCHANGED other_tx_books
    /\ UNCHANGED <<settingsVars, requestVars, scanVars, recRequestVars, recVars, dbVars,
                   fetched>>

\* recommend.py:83-86: await db.execute(select(Book).where(Book.title == ...))
OtherSelectBook ==
    /\ other_pc = "select"
    /\ LET found == {b \in db_books \cup other_tx_books : b.title = other_ai_rec.title.s}
       IN other_pc' = IF Cardinality(found) > 1 THEN "raising"
                      ELSE IF Cardinality(found) = 1 THEN "respond"
                      ELSE "flush"
    /\ UNCHANGED <<other_ai_rec, other_tx_books>>
    /\ UNCHANGED <<settingsVars, requestVars, scanVars, recRequestVars, recVars, dbVars,
                   fetched>>

\* recommend.py:89-99: the new Book and await db.flush()
OtherFlushBook ==
    /\ other_pc = "flush"
    /\ other_tx_books' =
          other_tx_books \cup {BookRow(next_id, other_ai_rec, "ai_recommendation")}
    /\ next_id' = next_id + 1
    /\ other_pc' = "respond"
    /\ UNCHANGED <<other_ai_rec, db_books, db_recommendations, tx_books,
                   tx_recommendations>>
    /\ UNCHANGED <<settingsVars, requestVars, scanVars, recRequestVars, recVars, fetched>>

\* recommend.py:101-122 and 136-137: the row is added and the response built
\* from it does not validate (it is not flushed: RecBuildResponse), so the
\* request raises
OtherBuildResponse ==
    /\ other_pc = "respond"
    /\ ~BookRecommendationResponseValid(BookRecommendation(other_ai_rec, NoBook), NoBook)
    /\ other_pc' = "raising"
    /\ UNCHANGED <<other_ai_rec, other_tx_books>>
    /\ UNCHANGED <<settingsVars, requestVars, scanVars, recRequestVars, recVars, dbVars,
                   fetched>>

\* get_database (core/database.py:51-54) rolls the second transaction back
OtherRollback ==
    /\ other_pc = "raising"
    /\ other_tx_books' = {}
    /\ other_pc' = "done"
    /\ UNCHANGED other_ai_rec
    /\ UNCHANGED <<settingsVars, requestVars, scanVars, recRequestVars, recVars, dbVars,
                   fetched>>

-----------------------------------------------------------------------------
(* get_recommendations (recommend.py:140-186) *)

NotFetched == [state |-> "none", recs |-> <<>>, error |-> <<>>]
Fetched(recs) == [state |-> "returned", recs |-> recs, error |-> <<>>]
FetchRaised(status, detail) ==
    [state |-> "raised", recs |-> <<>>, error |-> <<HTTPException(status, detail)>>]

\* the orders in which the query of recommend.py:160-166 can give the
\* session's committed rows: created_at descending, ties in any order
RowOrders ==
    {q \in SeqsUpTo(db_recommendations, Cardinality(db_recommendations)) :
        /\ Len(q) = Cardinality(db_recommendations)
        /\ \A i, j \in 1..Len(q) : i # j => q[i] # q[j]
        /\ \A i \in 1..(Len(q) - 1) : q[i].created_at >= q[i + 1].created_at}

\* the Book the join gives for a row
BookOf(row) == CHOOSE b \in db_books : b.id = row.book_id

\* a request for the session of rec_request, once generate_recommendations is
\* over; it does not look at session.is_expired
GetRecommendations ==
    /\ rec_pc = "done"
    /\ fetched = NotFetched
    /\ IF rec_session = "missing"
       THEN fetched' = FetchRaised(404, <<"Session not found">>)
       ELSE \E rows \in RowOrders :
               IF \A i \in 1..Len(rows) :
                     BookRecommendationResponseValid(rows[i], BookOf(rows[i]))
               THEN fetched' =
                      Fetched([i \in 1..Len(rows) |->
                                 BookRecommendationResponse(rows[i], BookOf(rows[i]))])
               ELSE fetched' =
                      FetchRaised(500, <<"Error retrieving recommendations: ",
                                         "validation error for BookRecommendationResponse">>)
    /\ UNCHANGED <<otherVars, settingsVars, requestVars, scanVars, recRequestVars,
                   recVars, dbVars>>

-----------------------------------------------------------------------------
(* The specifications: one scan_shelf request (Spec, and HangSpec where a       *)
(* provider may never answer), one generate_recommendations request (RecSpec),  *)
(* and two of them at once (ConcSpec).                                          *)

ScanIdle ==
    /\ session = "valid"
    /\ image_ok = TRUE
    /\ use_fallback = TRUE
    /\ max_books = 0
    /\ pc = "idle"
    /\ openai_service = FALSE
    /\ google_service = FALSE
    /\ recognized_books = <<>>
    /\ api_used = "none"
    /\ error_message = <<>>
    /\ success = FALSE
    /\ primary_calls = 0
    /\ secondary_calls = 0
    /\ vision_content = NoContent
    /\ primary_result = NotCalled
    /\ texts = <<>>
    /\ secondary_result = NotCalled
    /\ response = <<>>
    /\ http_error = <<>>

RecIdle ==
    /\ rec_session = "valid"
    /\ has_preferences = TRUE
    /\ favorite_genres = <<>>
    /\ max_recommendations = 1
    /\ rec_pc = "idle"
    /\ generator_result = GenNotCalled
    /\ fallback_used = FALSE
    /\ ai_recommendations = <<>>
    /\ idx = 1
    /\ book_row = NoBook
    /\ recommendation = NoRecommendation
    /\ recommendations = <<>>
    /\ rec_returned = <<>>
    /\ rec_error = <<>>
    /\ fetched = NotFetched
    /\ db_books = {}
    /\ db_recommendations = {}
    /\ tx_books = {}
    /\ tx_recommendations = <<>>
    /\ next_id = 3
    /\ other_pc = "idle"
    /\ other_ai_rec = NonDict
    /\ other_tx_books = {}

Init ==
    /\ OPENAI_API_KEY \in BOOLEAN
    /\ GOOGLE_CLOUD_PROJECT \in BOOLEAN
    /\ GOOGLE_VISION_AVAILABLE \in BOOLEAN
    /\ session \in {"valid", "missing", "expired"}
    /\ image_ok \in BOOLEAN
    /\ use_fallback \in BOOLEAN
    /\ max_books \in 0..MaxBooksBound
    /\ pc = "validate"
    /\ openai_service = FALSE
    /\ google_service = FALSE
    /\ recognized_books = <<>>
    /\ api_used = "none"
    /\ error_message = <<>>
    /\ success = FALSE
    /\ primary_calls = 0
    /\ secondary_calls = 0
    /\ vision_content = NoContent
    /\ primary_result = NotCalled
    /\ texts = <<>>
    /\ secondary_result = NotCalled
    /\ response = <<>>
    /\ http_error = <<>>
    /\ RecIdle

Next ==
    \/ ValidateRequest
    \/ InitServices
    \/ PrimaryAttempt
    \/ FallbackAttempt
    \/ Finish

Spec == Init /\ [][Next]_vars

\* openai_service.identify_books awaits the chat completion
\* (openai_service.py:83-102) and the provider never answers: nothing in
\* scan_shelf or in the service ends the wait (settings.VISION_TIMEOUT,
\* core/config.py:67, is read nowhere), so the request stays at the await
PrimaryHangs ==
    /\ pc = "primary"
    /\ OPENAI_API_KEY
    /\ primary_calls' = primary_calls + 1
    /\ pc' = "primary_pending"
    /\ UNCHANGED <<openai_service, google_service, recognized_books, api_used,
                   error_message, success, secondary_calls, primary_result, texts,
                   secondary_result, response, http_error>>
    /\ UNCHANGED otherVars
    /\ UNCHANGED <<vision_content, fetched, settingsVars, requestVars, recRequestVars,
                   recVars, dbVars>>

\* google_service.identify_books awaits run_in_executor
\* (google_vision_service.py:47-48) and text_detection never returns
FallbackHangs ==
    /\ pc = "fallback"
    /\ FallbackWanted
    /\ secondary_calls' = secondary_calls + 1
    /\ pc' = "fallback_pending"
    /\ UNCHANGED <<openai_service, google_service, recognized_books, api_used,
                   error_message, success, primary_calls, primary_result, texts,
                   secondary_result, response, http_error>>
    /\ UNCHANGED otherVars
    /\ UNCHANGED <<vision_content, fetched, settingsVars, requestVars, recRequestVars,
                   recVars, dbVars>>

HangNext ==
    \/ Next
    \/ PrimaryHangs
    \/ FallbackHangs

\* one scan_shelf request whose providers may never answer; the event loop
\* runs the request whenever it can take a step
HangSpec == Init /\ [][HangNext]_vars /\ WF_vars(HangNext)

RecInit ==
    /\ OPENAI_API_KEY \in BOOLEAN
    /\ GOOGLE_CLOUD_PROJECT = FALSE
    /\ GOOGLE_VISION_AVAILABLE = FALSE
    /\ ScanIdle
    /\ rec_session \in {"valid", "missing", "expired"}
    /\ has_preferences \in BOOLEAN
    /\ favorite_genres \in GenreLists
    /\ max_recommendations \in 1..MaxRecsBound
    /\ rec_pc = "validate"
    /\ generator_result = GenNotCalled
    /\ fallback_used = FALSE
    /\ ai_recommendations = <<>>
    /\ idx = 1
    /\ book_row = NoBook
    /\ recommendation = NoRecommendation
    /\ recommendations = <<>>
    /\ rec_returned = <<>>
    /\ rec_error = <<>>
    /\ fetched = NotFetched
    /\ db_books \in SUBSET SeededBooks
    /\ db_recommendations = {}
    /\ tx_books = {}
    /\ tx_recommendations = <<>>
    /\ next_id = 3
    /\ other_pc = "idle"
    /\ other_ai_rec = NonDict
    /\ other_tx_books = {}

RecNext ==
    \/ RecValidate
    \/ RecGenerate
    \/ RecLookupBook
    \/ RecAddRecommendation
    \/ RecBuildResponse
    \/ RecCommit
    \/ RecReturn
    \/ RecRollback
    \/ GetRecommendations

RecSpec == RecInit /\ [][RecNext]_vars

\* two generate_recommendations requests of valid sessions at once
ConcInit ==
    /\ RecInit
    /\ OPENAI_API_KEY
    /\ rec_session = "valid"
    /\ has_preferences
    /\ favorite_genres = <<>>

ConcNext ==
    \/ RecValidate
    \/ RecGenerate
    \/ RecLookupBook
    \/ RecAddRecommendation
    \/ RecBuildResponse
    \/ RecCommit
    \/ RecReturn
    \/ RecRollback
    \/ OtherStart
    \/ OtherSelectBook
    \/ OtherFlushBook
    \/ OtherBuildResponse
    \/ OtherRollback

ConcSpec == ConcInit /\ [][ConcNext]_vars

-----------------------------------------------------------------------------
(* Properties of scan_shelf *)

ValidRequest == session = "valid" /\ image_ok

\* the primary attempt was made and scan_shelf took it as failed: identify_books
\* raised, or one of its books did not validate as a RecognizedBook
PrimaryFailed ==
    /\ primary_calls > 0
    /\ \/ primary_result.state = "raised"
       \/ ToRecognizedBooks(primary_result.books).state = "raised"

\* the error of the primary attempt, as scan_shelf saw it
PrimaryError ==
    IF primary_result.state = "raised" THEN primary_result.err
    ELSE ToRecognizedBooks(primary_result.books).err

\* scan_shelf returned one ShelfScanResponse that reports a failure
StructuredFailure ==
    /\ http_error = <<>>
    /\ Len(response) = 1
    /\ ~response[1].success
    /\ response[1].recognized_books = <<>>
    /\ response[1].api_used = "none"
    /\ NonEmptyText(response[1].error_message)

\* C1: when both providers' identify_books raise (valid session and image,
\* fallback enabled), scan_shelf does not raise and returns one response with
\* success false, no candidates, provider none and a non-empty error detail.
C1_BothFailStructured ==
    ( /\ pc = "done"
      /\ ValidRequest
      /\ use_fallback
      /\ primary_result.state = "raised"
      /\ secondary_result.state = "raised" )
    => StructuredFailure

\* C2: with neither provider configured, a valid request ends with one
\* response reporting failure (no candidates, provider none, non-empty error
\* detail), nothing is raised and no provider is invoked.
C2_NoProviderConfigured ==
    (~OPENAI_API_KEY /\ ~GOOGLE_CLOUD_PROJECT)
    => /\ primary_calls = 0
       /\ secondary_calls = 0
       /\ http_error # <<>> => ~ValidRequest
       /\ (pc = "done" /\ ValidRequest) => StructuredFailure

C2_Witness ==
    /\ pc = "done"
    /\ ValidRequest
    /\ ~OPENAI_API_KEY
    /\ ~GOOGLE_CLOUD_PROJECT
    /\ Len(response) = 1
    /\ response[1].error_message = <<"Scan failed: ", "OpenAI API key not configured">>

\* C3: whenever the primary provider's identify_books returned, the secondary
\* provider's identify_books is not invoked and the result names the primary.
C3_PrimarySuccessNoSecondary ==
    primary_result.state = "returned"
    => /\ secondary_calls = 0
       /\ pc = "done" => ( /\ Len(response) = 1
                           /\ response[1].api_used = "openai" )

\* C4: primary failed, fallback enabled, secondary returned: the response has
\* success true, provider google, no error detail, and exactly the secondary's
\* candidates in the secondary's order.
C4_SecondaryResultExact ==
    ( /\ pc = "done"
      /\ PrimaryFailed
      /\ use_fallback
      /\ secondary_result.state = "returned" )
    => /\ http_error = <<>>
       /\ Len(response) = 1
       /\ response[1].success
       /\ response[1].api_used = "google"
       /\ response[1].error_message = <<>>
       /\ response[1].recognized_books = secondary_result.books
       /\ response[1].total_books_found = Len(secondary_result.books)

C4_Witness ==
    /\ pc = "done"
    /\ use_fallback
    /\ primary_result.state = "raised"
    /\ secondary_result.state = "returned"
    /\ Len(secondary_result.books) = 2
    /\ Len(response) = 1
    /\ response[1].recognized_books = secondary_result.books

\* C5: every response scan_shelf returns has, when success is false, no
\* candidates and provider none, and when success is true, provider openai or
\* google.
C5_ResponseInvariant ==
    \A i \in 1..Len(response) :
        /\ ~response[i].success
           => /\ response[i].recognized_books = <<>>
              /\ response[i].api_used = "none"
        /\ response[i].success => response[i].api_used \in {"openai", "google"}

C5_Witness ==
    /\ Len(response) = 1
    /\ response[1].success
    /\ response[1].api_used = "google"
    /\ response[1].recognized_books # <<>>

\* C6: with fallback disabled the secondary provider is never constructed nor
\* invoked, and a failed primary attempt ends the request at once with a
\* failure whose detail is the primary's error.
C6_NoFallbackFailsAtOnce ==
    ~use_fallback
    => /\ ~google_service
       /\ secondary_calls = 0
       /\ secondary_result = NotCalled
       /\ PrimaryFailed
          => /\ pc = "done"
             /\ response = <<>>
             /\ http_error =
                  <<HTTPException(500, <<"AI processing failed: ", PrimaryError>>)>>

C6_Witness ==
    /\ pc = "done"
    /\ ~use_fallback
    /\ primary_result = Raised("request timed out")
    /\ http_error =
         <<HTTPException(500, <<"AI processing failed: ", "request timed out">>)>>

\* GoogleVisionService() finds its package and its project
SecondaryConfigured == GOOGLE_VISION_AVAILABLE /\ GOOGLE_CLOUD_PROJECT

\* the request ended on a failure of its surroundings: the upload could not be
\* written, or the Google client found no credentials
SurroundingsFailed ==
    /\ Len(response) = 1
    /\ Len(response[1].error_message) = 2
    /\ response[1].error_message[2] \in
          {"cannot write the upload", "default credentials not found"}

\* C18: each provider is gated by its own configuration: a valid request with
\* the primary configured invokes the primary, whether or not fallback is
\* allowed and whether or not the secondary is configured; with only the
\* secondary configured and fallback allowed it invokes the secondary.
C18_ProvidersGatedIndependently ==
    (pc = "done" /\ ValidRequest /\ ~SurroundingsFailed)
    => /\ OPENAI_API_KEY => primary_calls > 0
       /\ (~OPENAI_API_KEY /\ SecondaryConfigured /\ use_fallback) => secondary_calls > 0

\* C19: every scan request eventually reaches a terminal state, also when a
\* provider never answers (each attempt is given up after a bounded wait).
C19_ScanTerminates == <>(pc = "done")

\* C20: when the vision model's content is no JSON array, identify_books
\* raises; so with fallback enabled the request does not end as a success of
\* the primary provider with no candidates.
C20_UnparseableIsFailure ==
    vision_content.kind \in {"text", "object"}
    => /\ primary_result.state = "raised"
       /\ (pc = "done" /\ use_fallback)
          => ~( /\ Len(response) = 1
                /\ response[1].success
                /\ response[1].api_used = "openai" )

\* the error detail of the failure the request ended with: the detail of the
\* HTTPException raised, or the error_message of the response returned
FailureDetail ==
    IF http_error # <<>> THEN http_error[1].detail
    ELSE IF response # <<>> /\ ~response[1].success THEN response[1].error_message
    ELSE <<>>

\* C21: when the primary attempt fails and the fallback attempt also fails, the
\* error detail of the resulting failure contains the error of both attempts.
C21_BothErrorsKept ==
    ( /\ pc = "done"
      /\ ValidRequest
      /\ PrimaryFailed
      /\ secondary_result.state = "raised" )
    => /\ \E i \in 1..Len(FailureDetail) : FailureDetail[i] = PrimaryError
       /\ \E i \in 1..Len(FailureDetail) : FailureDetail[i] = secondary_result.err

\* C22: in every successful response, whichever provider produced it, the
\* candidates are ordered by descending confidence.
C22_CandidatesDescending ==
    \A r \in 1..Len(response) :
        response[r].success
        => \A i, j \in 1..Len(response[r].recognized_books) :
              i < j => response[r].recognized_books[i].confidence
                          >= response[r].recognized_books[j].confidence

\* C23: a primary answer whose candidates carry a text position (and
\* confidences within [0, 1]) is accepted: the request ends as a success of the
\* primary provider with each candidate's position preserved.
C23_TextPositionAccepted ==
    ( /\ pc = "done"
      /\ primary_result.state = "returned"
      /\ \E i \in 1..Len(primary_result.books) : primary_result.books[i].position.some
      /\ \A i \in 1..Len(primary_result.books) :
            /\ primary_result.books[i].confidence >= 0
            /\ primary_result.books[i].confidence <= 10000 )
    => /\ http_error = <<>>
       /\ Len(response) = 1
       /\ response[1].success
       /\ response[1].api_used = "openai"
       /\ Len(response[1].recognized_books) = Len(primary_result.books)
       /\ \A i \in 1..Len(primary_result.books) :
             response[1].recognized_books[i].position = primary_result.books[i].position

\* C30: for every JSON array of the vision model, identify_books returns at
\* most max_books candidates, each with a non-empty trimmed title, and each
\* confidence is the number given, or 0.5 when it is missing, null or not a
\* number; an invalid confidence never makes identify_books raise.
C30_InvalidConfidenceDefaults ==
    LET items == Take(vision_content.items, max_books)
        kept == SelectSeq(items, LAMBDA e : Considered(e) /\ Strip(StrOf(e.title)) # <<>>)
        books == primary_result.books
    IN vision_content.kind = "array"
       => /\ primary_result.state = "returned"
          /\ Len(books) <= max_books
          /\ Len(books) = Len(kept)
          /\ \A i \in 1..Len(books) :
                /\ books[i].title # <<>>
                /\ books[i].title = Strip(books[i].title)
                /\ books[i].confidence = IF kept[i].confidence.k = "num"
                                         THEN kept[i].confidence.n ELSE 5000

-----------------------------------------------------------------------------
(* Properties of the OCR provider's text normalization *)

\* C14: every candidate _extract_books_from_text produces has a confidence in
\* [0.1, 1.0] and a non-empty title, also after the title/author split.
C14_CandidatesWellFormed ==
    secondary_result.state = "returned"
    => \A i \in 1..Len(secondary_result.books) :
          /\ secondary_result.books[i].confidence >= 1000
          /\ secondary_result.books[i].confidence <= 10000
          /\ secondary_result.books[i].title # <<>>

\* two candidates, one split into title and author, one with a confidence that
\* the long-number penalty brought under the base
C14_Witness ==
    /\ secondary_result.state = "returned"
    /\ Len(secondary_result.books) = 2
    /\ \E i \in 1..2 : /\ secondary_result.books[i].author.some
                       /\ secondary_result.books[i].title = Text.dune
    /\ \E i \in 1..2 : secondary_result.books[i].confidence < 5000

\* C15: for the text "1984\nby George Orwell\nISBN 978-0-452-28423-4\nCopyright
\* 1949" (and max_books >= 1) the candidates hold one with title "1984", author
\* "George Orwell" and confidence >= 0.5, and none made of the ISBN or the
\* copyright line.
C15_OrwellExample ==
    ( /\ texts = <<OrwellText>>
      /\ secondary_result.state = "returned"
      /\ max_books >= 1 )
    => /\ \E i \in 1..Len(secondary_result.books) :
             /\ secondary_result.books[i].title = Text.nineteen84
             /\ secondary_result.books[i].author = Some(Text.georgeOrwell)
             /\ secondary_result.books[i].confidence >= 5000
       /\ \A i \in 1..Len(secondary_result.books) :
             /\ ~IsSubstring(MetadataWords.isbn, Lower(secondary_result.books[i].title))
             /\ ~IsSubstring(MetadataWords.copyright, Lower(secondary_result.books[i].title))

\* C26: no two candidates of one run of _extract_books_from_text have titles
\* that are equal ignoring case, also when two different lines split to the
\* same title.
C26_NoDuplicateTitles ==
    secondary_result.state = "returned"
    => \A i, j \in 1..Len(secondary_result.books) :
          i # j => Lower(secondary_result.books[i].title)
                      # Lower(secondary_result.books[j].title)

\* C27: a line that matches one of the metadata heuristics, whatever its letter
\* case (only digits, a price, a catalog code of 2 to 4 letters followed by
\* digits, or one of the keywords), yields no candidate: a text made of such
\* lines only gives no candidate at all.
C27_MetadataDiscarded ==
    LET Letter(c) == \E i \in 1..Len(UpperCase) : UpperCase[i] = c \/ LowerCase[i] = c
        CatalogCode(t) ==
            \E n \in 2..4 : /\ Len(t) > n
                            /\ \A i \in 1..n : Letter(t[i])
                            /\ IsDigit(t[n + 1])
        Heuristic(line) ==
            \/ AllDigits(line)
            \/ Len(line) >= 2 /\ line[1] = "$" /\ IsDigit(line[2])
            \/ CatalogCode(line)
            \/ \E w \in {MetadataWords.isbn, MetadataWords.barcode,
                          MetadataWords.copyright, MetadataWords.edition,
                          MetadataWords.published, MetadataWords.page} :
                  IsSubstring(w, Lower(line))
    IN ( /\ secondary_result.state = "returned"
         /\ texts # <<>>
         /\ \A k \in 1..Len(StrippedLines(SplitChar(texts[1], "\n"))) :
               Heuristic(StrippedLines(SplitChar(texts[1], "\n"))[k]) )
       => secondary_result.books = <<>>

\* C28: the candidate of an accepted line has the title and the author that
\* splitting the line at the first occurrence of its highest-priority separator
\* gives, in the order " by ", " BY ", " - ", spaced dash, " | " (left part
\* title, right part author, each cleaned); a line with none of the five has
\* the whole cleaned string as title and no author.  Stated on texts of one
\* line.
C28_SplitAtSeparator ==
    LET lines == StrippedLines(SplitChar(texts[1], "\n"))
        five == << <<" ", "b", "y", " ">>, <<" ", "B", "Y", " ">>, <<" ", "-", " ">>,
                   <<" ", "<U+2013>", " ">>, <<" ", "|", " ">> >>
        parts == SeparateWith(lines[1], five)
    IN ( /\ secondary_result.state = "returned"
         /\ texts # <<>>
         /\ Len(lines) = 1
         /\ Len(secondary_result.books) = 1 )
       => IF parts.author.some
          THEN /\ secondary_result.books[1].title = CleanTitle(parts.title)
               /\ secondary_result.books[1].author = Some(CleanTitle(parts.author.s))
          ELSE /\ secondary_result.books[1].title = CleanTitle(lines[1])
               /\ secondary_result.books[1].author = None

\* C29: _extract_books_from_text returns at most max_books candidates; they
\* are the first max_books accepted lines in reading order (a later line is not
\* considered, even if it would score higher), sorted by confidence descending
\* with ties kept in reading order.
C29_FirstAcceptedSorted ==
    LET first == Take(AcceptedLines[texts], max_books)
        books == secondary_result.books
    IN secondary_result.state = "returned"
       => /\ Len(books) <= max_books
          /\ Len(books) = Len(first)
          /\ \E order \in [1..Len(books) -> 1..Len(books)] :
                /\ \A i, j \in 1..Len(books) : i # j => order[i] # order[j]
                /\ \A i \in 1..Len(books) : books[i] = first[order[i]]
                /\ \A i, j \in 1..Len(books) :
                      i < j => \/ books[i].confidence > books[j].confidence
                               \/ /\ books[i].confidence = books[j].confidence
                                  /\ order[i] < order[j]

\* one candidate was asked for and the second accepted line, which was not
\* considered, would have scored higher than the first
C29_Witness ==
    /\ secondary_result.state = "returned"
    /\ max_books = 1
    /\ Len(secondary_result.books) = 1
    /\ Len(AcceptedLines[texts]) = 2
    /\ AcceptedLines[texts][1] = secondary_result.books[1]
    /\ AcceptedLines[texts][2].confidence > AcceptedLines[texts][1].confidence

-----------------------------------------------------------------------------
(* Properties of generate_recommendations *)

\* the request passed recommend.py:32-64 and the generator was asked
GeneratorAsked == generator_result.state # "none"

\* errors of the storage, which generate_recommendations may pass on
StorageErrors == {"database error on flush", "database error on commit"}

\* C7: the list generate_recommendations returns has between 1 and
\* max_recommendations elements, whatever the generator did.
C7_ReturnedLengthInRange ==
    (rec_pc = "done" /\ GeneratorAsked /\ Len(rec_returned) = 1)
    => /\ Len(rec_returned[1]) >= 1
       /\ Len(rec_returned[1]) <= max_recommendations

\* C8: when the generator's content is no JSON, the rule-based fallback is
\* called, nothing is raised, and at least one recommendation is returned, each
\* of type rule_based.
C8_MalformedTextFallsBack ==
    (rec_pc = "done" /\ generator_result.kind = "text")
    => /\ fallback_used
       /\ rec_error = <<>>
       /\ Len(rec_returned) = 1
       /\ Len(rec_returned[1]) >= 1
       /\ \A i \in 1..Len(rec_returned[1]) :
             rec_returned[1][i].recommendation_type = "rule_based"

\* an element without a usable title
BadElement(e) == ~e.dict \/ e.title.k # "str" \/ e.title.s = ""

\* the generator's response parses, and is no sequence or holds a bad element
BadPrimaryResponse ==
    \/ generator_result.kind \in {"object", "scalar", "string"}
    \/ /\ generator_result.kind = "array"
       /\ \E i \in 1..Len(generator_result.recs) : BadElement(generator_result.recs[i])

\* C9: a response of the generator that is no sequence, or that holds an
\* element without a non-empty title, is replaced by the fallback's output;
\* unless the storage failed, no error reaches the caller; no such element is
\* stored.
C9_BadResponseFallsBack ==
    ( /\ rec_pc = "done"
      /\ BadPrimaryResponse
      /\ rec_error # <<>> => rec_error[1].detail[2] \notin StorageErrors )
    => /\ fallback_used
       /\ rec_error = <<>>
       /\ \A b \in db_books : b.title # ""

\* rows of this request's batch are visible in storage
BatchVisible == ~(db_books \subseteq SeededBooks) \/ db_recommendations # {}

\* C10: rows of the batch are visible only after the commit that follows the
\* construction of every row; after a failure none is visible and none is
\* left pending.
C10_AllOrNothing ==
    /\ BatchVisible
       => /\ rec_pc \in {"refresh", "done"}
          /\ rec_error = <<>>
          /\ idx > Len(ai_recommendations)
          /\ Len(recommendations) = Len(ai_recommendations)
    /\ (rec_pc = "done" /\ rec_error # <<>>)
       => /\ ~BatchVisible
          /\ tx_books = {}
          /\ tx_recommendations = <<>>

\* a request that failed after it had flushed a new catalog entry and added a
\* recommendation row
C10_Witness ==
    /\ rec_pc = "done"
    /\ rec_error # <<>>
    /\ book_row.source = "ai_recommendation"
    /\ recommendation.book_id = book_row.id
    /\ ~BatchVisible
    /\ tx_books = {}

\* the recommendation rows this request added to its session or committed
CreatedRecommendations ==
    {tx_recommendations[i] : i \in 1..Len(tx_recommendations)} \cup db_recommendations

\* the catalog entries this request created
CreatedBooks == (tx_books \cup db_books) \ SeededBooks

\* C11: rows that come from the rule-based fallback have recommendation_type
\* rule_based and their new catalog entries source "rule_based"; rows that come
\* from the primary generator have type ai and source "ai_recommendation".
C11_TypeFollowsGenerator ==
    /\ fallback_used
       => /\ \A r \in CreatedRecommendations : r.recommendation_type = "rule_based"
          /\ \A b \in CreatedBooks : b.source = "rule_based"
    /\ ~fallback_used
       => /\ \A r \in CreatedRecommendations : r.recommendation_type = "ai"
          /\ \A b \in CreatedBooks : b.source = "ai_recommendation"

\* C12: every recommendation row generate_recommendations creates has a reason
\* that is a non-empty string, also when the element's reason is null or "".
C12_ReasonNonEmpty ==
    \A r \in CreatedRecommendations : r.reason.k = "str" /\ r.reason.s # ""

\* the positions in the seed list of the entries whose genre contains one of the
\* session's favorite genres, both in lower case; all of them when the session
\* has no favorite genre (recommend.py:275-280)
SeedPositions ==
    IF favorite_genres = <<>> THEN 1..Len(FallbackBooks)
    ELSE {i \in 1..Len(FallbackBooks) :
            \E k \in 1..Len(favorite_genres) :
               IsSubstring(Lower(favorite_genres[k]), Lower(FallbackBooks[i].genre.s))}

\* the seed entries at SeedPositions, in seed-list order
SeedsMatching ==
    [j \in 1..Cardinality(SeedPositions) |->
        FallbackBooks[CHOOSE i \in SeedPositions :
                         Cardinality({m \in SeedPositions : m < i}) = j - 1]]

GoodElement(e) ==
    /\ e.dict
    /\ e.title.k = "str"
    /\ e.title.s # ""
    /\ Score(e.appeal_score).k = "num"
    /\ Score(e.appeal_score).n >= 0
    /\ Score(e.appeal_score).n <= 10000

\* the reference an element carries: its similarity_to, or none
Reference(e) ==
    IF e.similarity_to.k = "str" /\ e.similarity_to.s # ""
    THEN <<e.similarity_to.s>> ELSE <<>>

\* C17: every element the primary generator returned is, after
\* generate_recommendations, read back by get_recommendations for the same
\* session with its similarity_to as the only reference, or with no reference
\* when it has none (unless the storage failed).
C17_SimilarityRoundTrip ==
    ( /\ fetched # NotFetched
      /\ rec_session = "valid"
      /\ generator_result.state = "returned"
      /\ ai_recommendations # <<>>
      /\ \A i \in 1..Len(ai_recommendations) : GoodElement(ai_recommendations[i])
      /\ rec_error # <<>> => rec_error[1].detail[2] \notin StorageErrors )
    => /\ fetched.state = "returned"
       /\ \A i \in 1..Len(ai_recommendations) :
             \E j \in 1..Len(fetched.recs) :
                /\ fetched.recs[j].book.title = ai_recommendations[i].title.s
                /\ fetched.recs[j].source_books = Reference(ai_recommendations[i])

\* C24: every recommendation generate_recommendations returns carries the id of
\* its own persisted row: for a batch of storable elements (and no storage
\* failure) the request returns one recommendation per element, the ids are
\* pairwise distinct, none is a placeholder, and each is the id of a committed
\* row that references the same catalog entry.
C24_ReturnedIdsArePersisted ==
    ( /\ rec_pc = "done"
      /\ ai_recommendations # <<>>
      /\ \A i \in 1..Len(ai_recommendations) : GoodElement(ai_recommendations[i])
      /\ rec_error # <<>> => rec_error[1].detail[2] \notin StorageErrors )
    => /\ Len(rec_returned) = 1
       /\ Len(rec_returned[1]) = Len(ai_recommendations)
       /\ \A i \in 1..Len(rec_returned[1]) :
             /\ rec_returned[1][i].id.k = "uuid"
             /\ \A j \in 1..Len(rec_returned[1]) :
                   i # j => rec_returned[1][i].id # rec_returned[1][j].id
             /\ \E r \in db_recommendations :
                   /\ r.id = rec_returned[1][i].id.n
                   /\ r.book_id = rec_returned[1][i].book.id

\* C25: after any interleaving of concurrent generate_recommendations requests
\* the catalog holds at most one entry per exact title; and a request whose
\* generator gave the same title twice (storable elements, no storage failure)
\* ends with both recommendations stored on the one catalog entry of that title.
C25_OneEntryPerTitle ==
    /\ \A b1, b2 \in db_books : b1.title = b2.title => b1 = b2
    /\ ( /\ rec_pc = "done"
         /\ Len(ai_recommendations) = 2
         /\ GoodElement(ai_recommendations[1])
         /\ GoodElement(ai_recommendations[2])
         /\ ai_recommendations[1].title = ai_recommendations[2].title
         /\ rec_error # <<>> => rec_error[1].detail[2] \notin StorageErrors )
       => \E b \in db_books :
             /\ b.title = ai_recommendations[1].title.s
             /\ Cardinality({r \in db_recommendations : r.book_id = b.id}) = 2

====
